---- MODULE Spec2Model ----
(***************************************************************************)
(* The SIL pass entrypoints of lib/SILPasses/Passes.cpp:                   *)
(* runSILDiagnosticPasses and runSILOptimizationPasses driving a           *)
(* SILPassManager over one SILModule.                                      *)
(*                                                                         *)
(* A driver call is a walk of the program counter pc over the source lines *)
(* at which the driver waits for the pass manager: pc = 0 is "no driver    *)
(* call in progress", pc = n > 0 is "inside the PM.run() or                *)
(* PM.runOneIteration() call written at line n" (282 is the test of        *)
(* SILViewCFG).  ExecutePass runs the passes of the pipeline one at a      *)
(* time; each pass may report a change and may record a diagnostic error.  *)
(***************************************************************************)
EXTENDS Naturals, Sequences, FiniteSets

VARIABLES
    stage,       \* Module.getStage(): "Raw" or "Canonical"
    hadError,    \* Module.getASTContext().hadError()
    options,     \* Module.getOptions(): DebugSerialization, EnableFuncSigOpts, PrintInstCounts
    SILViewCFG,  \* the -sil-view-cfg command line flag
    pc,          \* source line of the run the driver is in, 0 when no call is in progress
    PM,          \* the driver's SILPassManager PM
    PrinterPM,   \* the SILPassManager PrinterPM of the instruction-count block
    running,     \* which pass manager is executing an iteration: "none", "PM", "PrinterPM"
    idx,         \* index in the running pipeline of the next pass to execute
    changed,     \* whether a pass of the running iteration reported a change
    executed,    \* the passes executed by the most recent driver call, in order
    call,        \* the most recent driver call: which driver, stage and hadError at entry
    prev,        \* the driver call before it
    ret,         \* the value returned by the most recent runSILDiagnosticPasses call
    pmCreated,   \* number of pass managers constructed by the most recent driver call
    stageWrites  \* number of Module.setStage calls so far

vars == <<stage, hadError, options, SILViewCFG, pc, PM, PrinterPM, running, idx,
          changed, executed, call, prev, ret, pmCreated, stageWrites>>

\* The counter of setStage calls saturates here.
MaxStageWrites == 3

Min(a, b) == IF a < b THEN a ELSE b

-----------------------------------------------------------------------------
(* SILPassManager *)

NoPM == [live |-> FALSE, name |-> "", pipeline |-> <<>>, analyses |-> <<>>,
         valid |-> {}, iterations |-> 0]

\* SILPassManager PM(&Module, Stage): an empty pipeline and an empty registry.
\* analyses are the registered kinds in registration order, valid the kinds
\* whose cached result is valid.
SILPassManager(Stage) ==
    [live |-> TRUE, name |-> Stage, pipeline |-> <<>>, analyses |-> <<>>,
     valid |-> {}, iterations |-> 0]

\* A registered analysis is computed on first access, not at registration.
registerAnalysis(pm, kind) == [pm EXCEPT !.analyses = Append(@, kind)]

\* The analyses sensitive to a side-effect category a Transform declares.
Sensitive(sideEffect) ==
    CASE sideEffect = "ControlFlow" -> {"Dominance", "PostOrder"}
      [] sideEffect = "Calls"       -> {"CallGraph"}
      [] OTHER                      -> {}

\* get(kind) for each kind of `kinds` that is registered: an invalid result is
\* recomputed and is valid afterwards.
get(pm, kinds) ==
    [pm EXCEPT !.valid = @ \cup (kinds \cap {pm.analyses[i] : i \in DOMAIN pm.analyses})]

\* invalidate(sideEffect): marks the sensitive analyses invalid, recomputes none.
invalidate(pm, sideEffect) == [pm EXCEPT !.valid = @ \ Sensitive(sideEffect)]

add(pm, pass) == [pm EXCEPT !.pipeline = Append(@, pass)]

\* A run of add calls, in the order written.
adds(pm, passes) == [pm EXCEPT !.pipeline = @ \o passes]

\* Discards the pipeline, keeps the registry, names the next stage.
resetAndRemoveTransformations(pm, NextStage) ==
    [pm EXCEPT !.pipeline = <<>>, !.name = NextStage, !.iterations = 0]

\* One iteration: every pass of the pipeline, in order, once.
runOneIteration(pm) == [pm EXCEPT !.iterations = @ + 1]

\* run(): the drivers decide the iteration count; run() is one iteration.
run(pm) == runOneIteration(pm)

-----------------------------------------------------------------------------
(* Passes.cpp: pipeline builders *)

createCodeMotion(HoistReleases) ==
    IF HoistReleases THEN "CodeMotion(HoistReleases)" ELSE "CodeMotion"

registerAnalysisPasses(pm) ==
    LET a1 == registerAnalysis(pm, "CallGraph")
        a2 == registerAnalysis(a1, "Alias")
        a3 == registerAnalysis(a2, "Dominance")
        a4 == registerAnalysis(a3, "LoopInfo")
        a5 == registerAnalysis(a4, "InductionVariable")
        a6 == registerAnalysis(a5, "PostOrder")
        a7 == registerAnalysis(a6, "ClassHierarchy")
        a8 == registerAnalysis(a7, "RCIdentity")
    IN  registerAnalysis(a8, "Destructor")

AddSimplifyCFGSILCombine(pm) ==
    adds(pm, <<"SimplifyCFG", "SILCombine", "SimplifyCFG">>)

AddHighLevelLoopOptPasses(pm) ==
    LET p1 == adds(pm, <<"LowerAggregate", "SILCombine", "SROA", "Mem2Reg",
                         "DCE", "SILCombine">>)
        p2 == AddSimplifyCFGSILCombine(p1)
    IN  adds(p2, <<"LoopRotate",
                   "DCE", "CSE", "SILCombine", "SimplifyCFG", "ABCOpt",
                   "DCE", "COWArrayOpts",
                   "DCE", "SwiftArrayOpts">>)

AddLowLevelLoopOptPasses(pm) ==
    adds(pm, <<"LICM", "DCE", "CSE", "SILCombine", "SimplifyCFG">>)

\* The inliner of the switch on OpLevel.
\* Inliner, but choosing the late inliner at every level.
Inliner_AlwaysLate(OpLevel) ==
    CASE OpLevel = "HighLevel" -> "LateInliner"
      [] OpLevel = "MidLevel"  -> "LateInliner"
      [] OpLevel = "LowLevel"  -> "LateInliner"

Inliner(OpLevel) ==
    CASE OpLevel = "HighLevel" -> "EarlyInliner"
      [] OpLevel = "MidLevel"  -> "PerfInliner"
      [] OpLevel = "LowLevel"  -> "LateInliner"

\* AddSSAPasses, but with the level deciding the first code motion's
\* HoistReleases as well.
AddSSAPasses_HoistsEarly(pm, OpLevel) ==
    LET p1 == AddSimplifyCFGSILCombine(pm)
        p2 == adds(p1, <<"AllocBoxToStack", "CopyForwarding", "LowerAggregate",
                         "SILCombine", "SROA", "Mem2Reg",
                         "PerformanceConstantPropagation", "DCE", "CSE",
                         "SILCombine">>)
        p3 == AddSimplifyCFGSILCombine(p2)
        p4 == adds(p3, <<"GlobalLoadStoreOpts",
                         createCodeMotion(OpLevel = "LowLevel"),
                         "GlobalARCOpts",
                         "Devirtualization", "GenericSpecializer", "SILLinker">>)
        p5 == add(p4, Inliner(OpLevel))
    IN  adds(p5, <<"SimplifyCFG", createCodeMotion(OpLevel = "LowLevel"),
                   "GlobalARCOpts">>)

AddSSAPasses(pm, OpLevel) ==
    LET p1 == AddSimplifyCFGSILCombine(pm)
        p2 == adds(p1, <<"AllocBoxToStack", "CopyForwarding", "LowerAggregate",
                         "SILCombine", "SROA", "Mem2Reg",
                         "PerformanceConstantPropagation", "DCE", "CSE",
                         "SILCombine">>)
        p3 == AddSimplifyCFGSILCombine(p2)
        p4 == adds(p3, <<"GlobalLoadStoreOpts", createCodeMotion(FALSE),
                         "GlobalARCOpts",
                         "Devirtualization", "GenericSpecializer", "SILLinker">>)
        p5 == add(p4, Inliner(OpLevel))
    IN  adds(p5, <<"SimplifyCFG", createCodeMotion(OpLevel = "LowLevel"),
                   "GlobalARCOpts">>)

-----------------------------------------------------------------------------
(* The module and the bookkeeping of driver calls *)

Stages == {"Raw", "Canonical"}

NoCall == [driver |-> "none", entryStage |-> "Raw", entryHadError |-> FALSE]

Init ==
    /\ stage \in Stages
    /\ hadError \in BOOLEAN
    /\ options \in [DebugSerialization : BOOLEAN, EnableFuncSigOpts : BOOLEAN,
                    PrintInstCounts : BOOLEAN]
    /\ SILViewCFG \in BOOLEAN
    /\ pc = 0
    /\ PM = NoPM
    /\ PrinterPM = NoPM
    /\ running = "none"
    /\ idx = 0
    /\ changed = FALSE
    /\ executed = <<>>
    /\ call = NoCall
    /\ prev = NoCall
    /\ ret = FALSE
    /\ pmCreated = 0
    /\ stageWrites = 0

\* The pass manager whose iteration is in progress.
Running == IF running = "PrinterPM" THEN PrinterPM ELSE PM

\* The iteration in progress has executed its last pass.
IterationDone == running # "none" /\ idx > Len(Running.pipeline)

\* A driver is entered: the call before becomes prev.
Enter(driver) ==
    /\ pc = 0
    /\ prev' = call
    /\ call' = [driver |-> driver, entryStage |-> stage, entryHadError |-> hadError]
    /\ executed' = <<>>

\* The pass manager `who` starts an iteration; the driver waits at line `line`.
Start(who, line) ==
    /\ pc' = line
    /\ running' = who
    /\ idx' = 1
    /\ changed' = FALSE

\* The driver returns: its pass managers go out of scope.
Leave ==
    /\ pc' = 0
    /\ PM' = NoPM
    /\ PrinterPM' = NoPM
    /\ running' = "none"
    /\ idx' = 0
    /\ changed' = FALSE

\* Module.setStage(s)
setStage(s) ==
    /\ stage' = s
    /\ stageWrites' = Min(stageWrites + 1, MaxStageWrites)

\* One pass of the running pipeline executes: it may report a change and may
\* record an error in the AST context; it writes neither stage nor options.
\* The entry appended to executed says which pass manager ran the pass, under
\* which stage name, in which iteration since the last reset, and at which
\* position of the pipeline (last: it is the pipeline's final pass).
PassStep ==
    /\ running # "none"
    /\ idx <= Len(Running.pipeline)
    /\ executed' = Append(executed, [pm |-> running, stage |-> Running.name,
                                     iter |-> Running.iterations,
                                     pos  |-> idx,
                                     last |-> (idx = Len(Running.pipeline)),
                                     pass |-> Running.pipeline[idx]])
    /\ idx' = idx + 1
    /\ \E c \in BOOLEAN : changed' = (changed \/ c)
    /\ \E e \in BOOLEAN : hadError' = (hadError \/ e)
    /\ UNCHANGED <<stage, options, SILViewCFG, pc, running, call,
                   prev, ret, pmCreated, stageWrites>>

\* A pass executes; which cached analyses are valid is not followed.
ExecutePass == PassStep /\ UNCHANGED <<PM, PrinterPM>>

\* What a pass may read from the registry, and the side effects it may declare.
AnalysesRead == {{}, {"Dominance"}, {"CallGraph"}}
SideEffects == {"Nothing", "ControlFlow", "Calls"}

\* A pass executes, reading analyses of the running pass manager's registry
\* (recomputed if invalid) and then invalidating by its declared side effect.
ExecutePassOnRegistry ==
    /\ PassStep
    /\ \E reads \in AnalysesRead, fx \in SideEffects :
          LET after == invalidate(get(Running, reads), fx)
          IN  IF running = "PrinterPM"
              THEN PrinterPM' = after /\ PM' = PM
              ELSE PM' = after /\ PrinterPM' = PrinterPM

-----------------------------------------------------------------------------
(* swift::runSILDiagnosticPasses *)

\* DiagCanonical, but returning the context's error flag instead of false.
DiagCanonical_ReturnsHadError ==
    /\ Enter("diag")
    /\ stage = "Canonical"
    /\ ret' = hadError
    /\ pmCreated' = 0
    /\ UNCHANGED <<stage, hadError, options, SILViewCFG, pc, PM, PrinterPM,
                   running, idx, changed, stageWrites>>

\* DiagCanonical, but without the early return: the mandatory inlining run
\* of lines 67-76 is started on the canonical module.
DiagCanonical_NoEarlyReturn ==
    /\ Enter("diag")
    /\ stage = "Canonical"
    /\ PM' = run(add(registerAnalysisPasses(SILPassManager("")), "MandatoryInlining"))
    /\ Start("PM", 76)
    /\ pmCreated' = 1
    /\ UNCHANGED <<stage, hadError, options, SILViewCFG, PrinterPM, ret, stageWrites>>

\* Lines 64-65: a module already in canonical form is not diagnosed again.
DiagCanonical ==
    /\ Enter("diag")
    /\ stage = "Canonical"
    /\ ret' = FALSE
    /\ pmCreated' = 0
    /\ UNCHANGED <<stage, hadError, options, SILViewCFG, pc, PM, PrinterPM,
                   running, idx, changed, stageWrites>>

\* Lines 67-76: debug serialization runs mandatory inlining alone.
DiagDebugSerialization ==
    /\ Enter("diag")
    /\ stage # "Canonical"
    /\ options.DebugSerialization
    /\ PM' = run(add(registerAnalysisPasses(SILPassManager("")), "MandatoryInlining"))
    /\ Start("PM", 76)
    /\ pmCreated' = 1
    /\ UNCHANGED <<stage, hadError, options, SILViewCFG, PrinterPM, ret, stageWrites>>

\* DiagDebugReturn, but marking the module canonical as DiagReturn does.
DiagDebugReturn_SetsCanonical ==
    /\ pc = 76
    /\ IterationDone
    /\ setStage("Canonical")
    /\ ret' = hadError
    /\ Leave
    /\ UNCHANGED <<hadError, options, SILViewCFG, executed, call, prev, pmCreated>>

\* Line 77
DiagDebugReturn ==
    /\ pc = 76
    /\ IterationDone
    /\ ret' = hadError
    /\ Leave
    /\ UNCHANGED <<stage, hadError, options, SILViewCFG, executed, call, prev,
                   pmCreated, stageWrites>>

\* DiagFull, but with the critical-edge splitting added before the data-flow
\* diagnostics.
DiagFull_SplitEdgesEarly ==
    /\ Enter("diag")
    /\ stage # "Canonical"
    /\ ~options.DebugSerialization
    /\ LET p1 == add(registerAnalysisPasses(SILPassManager("")), "MandatoryInlining")
           p2 == adds(p1, <<"CapturePromotion", "AllocBoxToStack",
                            "InOutDeshadowing", "NoReturnFolding",
                            "DefiniteInitialization",
                            "PredictableMemoryOptimizations",
                            "DiagnosticConstantPropagation",
                            "DiagnoseUnreachable",
                            "SplitNonCondBrCriticalEdges", "EmitDFDiagnostics">>)
       IN  PM' = run(p2)
    /\ Start("PM", 92)
    /\ pmCreated' = 1
    /\ UNCHANGED <<stage, hadError, options, SILViewCFG, PrinterPM, ret, stageWrites>>

\* Lines 67-75 and 81-92: the full diagnostic pipeline.
DiagFull ==
    /\ Enter("diag")
    /\ stage # "Canonical"
    /\ ~options.DebugSerialization
    /\ LET p1 == add(registerAnalysisPasses(SILPassManager("")), "MandatoryInlining")
           p2 == adds(p1, <<"CapturePromotion", "AllocBoxToStack",
                            "InOutDeshadowing", "NoReturnFolding",
                            "DefiniteInitialization",
                            "PredictableMemoryOptimizations",
                            "DiagnosticConstantPropagation",
                            "DiagnoseUnreachable", "EmitDFDiagnostics",
                            "SplitNonCondBrCriticalEdges">>)
       IN  PM' = run(p2)
    /\ Start("PM", 92)
    /\ pmCreated' = 1
    /\ UNCHANGED <<stage, hadError, options, SILViewCFG, PrinterPM, ret, stageWrites>>

\* DiagReturn, but giving up the run as soon as an error has been recorded.
DiagReturn_StopsOnError ==
    /\ pc = 92
    /\ IterationDone \/ hadError
    /\ setStage("Canonical")
    /\ ret' = hadError
    /\ Leave
    /\ UNCHANGED <<hadError, options, SILViewCFG, executed, call, prev, pmCreated>>

\* DiagReturn, but without the setStage call of line 95.
DiagReturn_NoSetStage ==
    /\ pc = 92
    /\ IterationDone
    /\ ret' = hadError
    /\ Leave
    /\ UNCHANGED <<stage, stageWrites, hadError, options, SILViewCFG, executed,
                   call, prev, pmCreated>>

\* Lines 95-98
DiagReturn ==
    /\ pc = 92
    /\ IterationDone
    /\ setStage("Canonical")
    /\ ret' = hadError
    /\ Leave
    /\ UNCHANGED <<hadError, options, SILViewCFG, executed, call, prev, pmCreated>>

-----------------------------------------------------------------------------
(* swift::runSILOptimizationPasses *)

\* Lines 195-199: debug serialization runs the linker alone.
OptDebugSerialization ==
    /\ Enter("opt")
    /\ options.DebugSerialization
    /\ PM' = run(add(registerAnalysisPasses(SILPassManager("")), "SILLinker"))
    /\ Start("PM", 199)
    /\ pmCreated' = 1
    /\ UNCHANGED <<stage, hadError, options, SILViewCFG, PrinterPM, ret, stageWrites>>

\* OptDebugReturn, but without the return of line 200: the driver falls
\* through to the PreSpecialize stage.
OptDebugReturn_FallsThrough ==
    /\ pc = 199
    /\ IterationDone
    /\ PM' = run(adds(resetAndRemoveTransformations(PM, "PreSpecialize"),
                      <<"SILLinker", "GenericSpecializer">>))
    /\ Start("PM", 209)
    /\ UNCHANGED <<stage, hadError, options, SILViewCFG, PrinterPM, executed,
                   call, prev, ret, pmCreated, stageWrites>>

\* Line 200
OptDebugReturn ==
    /\ pc = 199
    /\ IterationDone
    /\ Leave
    /\ UNCHANGED <<stage, hadError, options, SILViewCFG, executed, call, prev,
                   ret, pmCreated, stageWrites>>

\* Lines 203-209
OptPreSpecialize ==
    /\ Enter("opt")
    /\ ~options.DebugSerialization
    /\ LET p1 == registerAnalysisPasses(SILPassManager("PreSpecialize"))
           p2 == adds(p1, <<"SILLinker", "GenericSpecializer">>)
       IN  PM' = run(p2)
    /\ Start("PM", 209)
    /\ pmCreated' = 1
    /\ UNCHANGED <<stage, hadError, options, SILViewCFG, PrinterPM, ret, stageWrites>>

\* The run at line `from` has finished; the driver goes on to the run at line
\* `to` with its pass manager changed to newPM.
Continue(from, to, newPM) ==
    /\ pc = from
    /\ IterationDone
    /\ PM' = newPM
    /\ Start("PM", to)
    /\ UNCHANGED <<stage, hadError, options, SILViewCFG, PrinterPM, executed,
                   call, prev, ret, pmCreated, stageWrites>>

\* OptHighLevel, but with a pass manager constructed anew for the stage
\* instead of the reset of line 210.
OptHighLevel_NewManager ==
    Continue(209, 214,
        runOneIteration(AddSSAPasses(
            registerAnalysisPasses(SILPassManager("HighLevel")), "HighLevel")))

\* OptHighLevel, but registering the analyses again after the reset.
OptHighLevel_ReRegisters ==
    Continue(209, 214,
        runOneIteration(AddSSAPasses(
            registerAnalysisPasses(resetAndRemoveTransformations(PM, "HighLevel")),
            "HighLevel")))

\* Lines 210-214
OptHighLevel ==
    Continue(209, 214,
        runOneIteration(AddSSAPasses(resetAndRemoveTransformations(PM, "HighLevel"),
                                     "HighLevel")))

\* OptHighLevelSecond, but with nothing left to run: the second iteration
\* of line 215 executes no pass.
OptHighLevelSecond_Dropped ==
    Continue(214, 215, resetAndRemoveTransformations(PM, "HighLevel"))

\* Line 215
OptHighLevelSecond == Continue(214, 215, runOneIteration(PM))

\* OptEarlyLoopOpt, but returning from the driver when an error has been
\* recorded by then.
OptEarlyLoopOpt_ReturnsOnError ==
    IF hadError
    THEN /\ pc = 215
         /\ IterationDone
         /\ Leave
         /\ UNCHANGED <<stage, hadError, options, SILViewCFG, executed, call,
                        prev, ret, pmCreated, stageWrites>>
    ELSE Continue(215, 220,
             runOneIteration(AddHighLevelLoopOptPasses(
                 resetAndRemoveTransformations(PM, "EarlyLoopOpt"))))

\* Lines 218-220
OptEarlyLoopOpt ==
    Continue(215, 220,
        runOneIteration(AddHighLevelLoopOptPasses(
            resetAndRemoveTransformations(PM, "EarlyLoopOpt"))))

\* OptMidLevel, but without the reset of line 221: the mid-level passes are
\* appended to the loop pipeline.
OptMidLevel_NoReset ==
    Continue(220, 225, runOneIteration(AddSSAPasses(PM, "MidLevel")))

\* Lines 221-225
OptMidLevel ==
    Continue(220, 225,
        runOneIteration(AddSSAPasses(resetAndRemoveTransformations(PM, "MidLevel"),
                                     "MidLevel")))

\* Line 226
\* OptMidLevelSecond, but repeating the iteration for as long as a pass
\* of the iteration before reported a change.
OptMidLevelSecond_UntilFixpoint ==
    IF changed
    THEN Continue(225, 225, runOneIteration(PM))
    ELSE Continue(225, 226, runOneIteration(PM))

OptMidLevelSecond == Continue(225, 226, runOneIteration(PM))

\* OptLower, but adding the function signature optimization whatever
\* EnableFuncSigOpts says.
OptLower_AlwaysFuncSigOpts ==
    LET p1 == resetAndRemoveTransformations(PM, "Lower")
        p2 == adds(p1, <<"DeadFunctionElimination", "DeadObjectElimination",
                         "GlobalOpt",
                         "CapturePropagation",
                         "ClosureSpecializer",
                         "Devirtualization", "InlineCaches">>)
        p3 == add(p2, "FunctionSignatureOpts")
    IN  Continue(226, 260, run(p3))

\* OptLower, but with closure specialization added ahead of capture
\* propagation.
OptLower_ClosureFirst ==
    LET p1 == resetAndRemoveTransformations(PM, "Lower")
        p2 == adds(p1, <<"DeadFunctionElimination", "DeadObjectElimination",
                         "GlobalOpt",
                         "ClosureSpecializer",
                         "CapturePropagation",
                         "Devirtualization", "InlineCaches">>)
        p3 == IF options.EnableFuncSigOpts
              THEN add(p2, "FunctionSignatureOpts")
              ELSE p2
    IN  Continue(226, 260, run(p3))

\* Lines 227-260
OptLower ==
    LET p1 == resetAndRemoveTransformations(PM, "Lower")
        p2 == adds(p1, <<"DeadFunctionElimination", "DeadObjectElimination",
                         "GlobalOpt",
                         "CapturePropagation",
                         "ClosureSpecializer",
                         "Devirtualization", "InlineCaches">>)
        p3 == IF options.EnableFuncSigOpts
              THEN add(p2, "FunctionSignatureOpts")
              ELSE p2
    IN  Continue(226, 260, run(p3))

\* Lines 261-267
OptLowLevel ==
    Continue(260, 267,
        runOneIteration(AddSSAPasses(resetAndRemoveTransformations(PM, "LowLevel"),
                                     "LowLevel")))

\* Lines 269-272
OptLateLoopOpt ==
    LET p1 == resetAndRemoveTransformations(PM, "LateLoopOpt")
        p2 == AddLowLevelLoopOptPasses(p1)
        p3 == add(p2, "DeadFunctionElimination")
    IN  Continue(267, 272, runOneIteration(p3))

\* No iteration is in progress: the driver is between two statements.
Between(line) ==
    /\ pc' = line
    /\ running' = "none"
    /\ idx' = 0
    /\ changed' = FALSE

\* OptPrintInstCounts, but adding the instruction count to the driver's own
\* pass manager and iterating that.
OptPrintInstCounts_ReusesPM ==
    /\ pc = 272
    /\ IterationDone
    /\ options.PrintInstCounts
    /\ PM' = runOneIteration(add(PM, "SILInstCount"))
    /\ Start("PM", 278)
    /\ UNCHANGED <<stage, hadError, options, SILViewCFG, PrinterPM, executed,
                   call, prev, ret, pmCreated, stageWrites>>

\* Lines 275-278: the instruction counts, in a pass manager of their own.
OptPrintInstCounts ==
    /\ pc = 272
    /\ IterationDone
    /\ options.PrintInstCounts
    /\ PrinterPM' = runOneIteration(add(SILPassManager(""), "SILInstCount"))
    /\ Start("PrinterPM", 278)
    /\ pmCreated' = pmCreated + 1
    /\ UNCHANGED <<stage, hadError, options, SILViewCFG, PM, executed, call,
                   prev, ret, stageWrites>>

\* Line 279: PrinterPM goes out of scope.
OptPrinterDone ==
    /\ pc = 278
    /\ IterationDone
    /\ PrinterPM' = NoPM
    /\ Between(282)
    /\ UNCHANGED <<stage, hadError, options, SILViewCFG, PM, executed, call,
                   prev, ret, pmCreated, stageWrites>>

\* Line 275, PrintInstCounts not set.
OptNoInstCounts ==
    /\ pc = 272
    /\ IterationDone
    /\ ~options.PrintInstCounts
    /\ Between(282)
    /\ UNCHANGED <<stage, hadError, options, SILViewCFG, PM, PrinterPM, executed,
                   call, prev, ret, pmCreated, stageWrites>>

\* OptViewCFG, but without the reset of line 283.
OptViewCFG_NoReset ==
    /\ pc = 282
    /\ SILViewCFG
    /\ PM' = runOneIteration(add(PM, "SILCFGPrinter"))
    /\ Start("PM", 285)
    /\ UNCHANGED <<stage, hadError, options, SILViewCFG, PrinterPM, executed,
                   call, prev, ret, pmCreated, stageWrites>>

\* Lines 282-285: the CFG viewer.
OptViewCFG ==
    /\ pc = 282
    /\ SILViewCFG
    /\ PM' = runOneIteration(add(resetAndRemoveTransformations(PM, ""),
                                 "SILCFGPrinter"))
    /\ Start("PM", 285)
    /\ UNCHANGED <<stage, hadError, options, SILViewCFG, PrinterPM, executed,
                   call, prev, ret, pmCreated, stageWrites>>

\* Line 288, after the CFG viewer run.
OptViewCFGReturn ==
    /\ pc = 285
    /\ IterationDone
    /\ Leave
    /\ UNCHANGED <<stage, hadError, options, SILViewCFG, executed, call, prev,
                   ret, pmCreated, stageWrites>>

\* OptReturn, but handing the module back as Raw.
OptReturn_ResetsStage ==
    /\ pc = 282
    /\ ~SILViewCFG
    /\ Leave
    /\ stage' = "Raw"
    /\ UNCHANGED <<hadError, options, SILViewCFG, executed, call, prev,
                   ret, pmCreated, stageWrites>>

\* Line 288, SILViewCFG not set.
OptReturn ==
    /\ pc = 282
    /\ ~SILViewCFG
    /\ Leave
    /\ UNCHANGED <<stage, hadError, options, SILViewCFG, executed, call, prev,
                   ret, pmCreated, stageWrites>>

-----------------------------------------------------------------------------

\* The steps of runSILDiagnosticPasses.
DiagnosticDriver ==
    \/ DiagCanonical
    \/ DiagDebugSerialization
    \/ DiagDebugReturn
    \/ DiagFull
    \/ DiagReturn

\* The steps of runSILOptimizationPasses.
OptimizationDriver ==
    \/ OptDebugSerialization
    \/ OptDebugReturn
    \/ OptPreSpecialize
    \/ OptHighLevel
    \/ OptHighLevelSecond
    \/ OptEarlyLoopOpt
    \/ OptMidLevel
    \/ OptMidLevelSecond
    \/ OptLower
    \/ OptLowLevel
    \/ OptLateLoopOpt
    \/ OptPrintInstCounts
    \/ OptPrinterDone
    \/ OptNoInstCounts
    \/ OptViewCFG
    \/ OptViewCFGReturn
    \/ OptReturn

Next == ExecutePass \/ DiagnosticDriver \/ OptimizationDriver

\* The optimization driver alone, with the validity of the cached analyses
\* followed from pass to pass.
NextOnRegistry == ExecutePassOnRegistry \/ OptimizationDriver

Spec == Init /\ [][Next]_vars

\* A driver call in progress is not suspended for ever: the drivers and the
\* pass manager are sequential code that keeps executing.
FairSpec == Spec /\ WF_vars(Next)

\* The optimizer is given a module the diagnostic passes have made canonical
\* without error.
RegistryInit == Init /\ stage = "Canonical" /\ ~hadError

RegistrySpec == RegistryInit /\ [][NextOnRegistry]_vars

TypeOK ==
    /\ stage \in Stages
    /\ hadError \in BOOLEAN
    /\ pc \in {0, 76, 92, 199, 209, 214, 215, 220, 225, 226, 260, 267, 272, 278,
               282, 285}
    /\ running \in {"none", "PM", "PrinterPM"}
    /\ stageWrites \in 0..MaxStageWrites

-----------------------------------------------------------------------------
(* Properties *)

\* The names of the passes of a log, in order.
Passes(log) == [i \in 1..Len(log) |-> log[i].pass]

\* The most recent driver call was to `driver` and has returned.
Returned(driver) == pc = 0 /\ call.driver = driver

\* C1, as stated: a Diagnostic Driver call on a Canonical module, with
\* DebugSerialization off, executes no pass and returns the value hadError had
\* at entry.
C1_ReturnsEntryError ==
    (Returned("diag") /\ call.entryStage = "Canonical" /\ ~options.DebugSerialization)
        => (executed = <<>> /\ ret = call.entryHadError)

\* C1, amended: a Diagnostic Driver call on a Canonical module, with
\* DebugSerialization off, executes no pass and returns false, for hadError
\* true at entry as for hadError false at entry.
C1_CanonicalReturnsFalse ==
    (Returned("diag") /\ call.entryStage = "Canonical" /\ ~options.DebugSerialization)
        => (executed = <<>> /\ ~ret)

C1_Witness ==
    /\ Returned("diag")
    /\ call.entryStage = "Canonical"
    /\ ~options.DebugSerialization
    /\ call.entryHadError
    /\ ~ret

\* The second of two consecutive Diagnostic Driver calls, the first of which
\* was entered on a Raw module.
SecondDiagCall ==
    /\ prev.driver = "diag"
    /\ prev.entryStage = "Raw"
    /\ call.driver = "diag"

\* What C2 says of two consecutive Diagnostic Driver calls: the first leaves
\* the module Canonical, the second executes nothing and changes nothing.
SecondCallIsNoOp ==
    /\ (Returned("diag") /\ call.entryStage = "Raw") => stage = "Canonical"
    /\ SecondDiagCall =>
          /\ pc = 0
          /\ executed = <<>>
          /\ pmCreated = 0
          /\ stage = call.entryStage
          /\ hadError = call.entryHadError

\* C2, as stated: for every value of the options, DebugSerialization
\* included, after a Diagnostic Driver call on a Raw module the stage is
\* Canonical, and a second call executes zero passes and leaves stage and
\* hadError unchanged.
C2_IdempotentAllOptions == SecondCallIsNoOp

\* C2, amended: with DebugSerialization off, after a Diagnostic Driver call
\* on a Raw module the stage is Canonical, and a second call executes zero
\* passes and leaves stage and hadError unchanged.
C2_IdempotentFullDiagnostics == ~options.DebugSerialization => SecondCallIsNoOp

C2_Witness ==
    /\ SecondDiagCall
    /\ ~options.DebugSerialization
    /\ pc = 0
    /\ stage = "Canonical"
    /\ hadError

\* The passes executed so far are a prefix of `passes`, all of them run by
\* the driver's own pass manager, and the whole of `passes` once the driver
\* has returned.
ExecutesExactly(passes) ==
    /\ Len(executed) <= Len(passes)
    /\ \A i \in 1..Len(executed) :
          executed[i].pass = passes[i] /\ executed[i].pm = "PM"
    /\ pc = 0 => Len(executed) = Len(passes)

\* C3: with DebugSerialization on, a Diagnostic Driver call on a Raw module
\* installs and executes exactly the one-pass pipeline <<mandatory inlining>>,
\* and an Optimization Driver call installs and executes exactly the
\* one-pass pipeline <<linker>>; no other pass executes and no second pass
\* manager is constructed.
C3_DebugSerializationShortcut ==
    options.DebugSerialization =>
        /\ (call.driver = "diag" /\ call.entryStage = "Raw") =>
              /\ ExecutesExactly(<<"MandatoryInlining">>)
              /\ pc # 0 => PM.pipeline = <<"MandatoryInlining">>
              /\ pmCreated = 1
        /\ call.driver = "opt" =>
              /\ ExecutesExactly(<<"SILLinker">>)
              /\ pc # 0 => PM.pipeline = <<"SILLinker">>
              /\ pmCreated = 1

C3_Witness ==
    /\ options.DebugSerialization
    /\ options.PrintInstCounts
    /\ SILViewCFG
    /\ Returned("opt")
    /\ prev.driver = "diag"
    /\ prev.entryStage = "Raw"
    /\ Passes(executed) = <<"SILLinker">>

\* The log entries of the passes the driver's pass manager executed under
\* stage name s.
StageEntries(s) ==
    {i \in DOMAIN executed : executed[i].pm = "PM" /\ executed[i].stage = s}

\* Iterations of stage s begun, and iterations of stage s run to their last pass.
IterationsBegun(s) == Cardinality({i \in StageEntries(s) : executed[i].pos = 1})
IterationsEnded(s) == Cardinality({i \in StageEntries(s) : executed[i].last})

OptStages == <<"PreSpecialize", "HighLevel", "EarlyLoopOpt", "MidLevel", "Lower",
               "LowLevel", "LateLoopOpt">>

\* The iterations section 8 of the specification gives each stage.
Budget(s) == IF s \in {"HighLevel", "MidLevel"} THEN 2 ELSE 1

\* C4: in an Optimization Driver call without DebugSerialization, whatever
\* the passes report as changed, the HighLevel and the MidLevel pipelines are
\* each executed exactly twice and the PreSpecialize, EarlyLoopOpt, Lower,
\* LowLevel and LateLoopOpt pipelines exactly once, each time from the first
\* pass to the last; no stage ever exceeds its count during the call.
C4_IterationCounts ==
    (call.driver = "opt" /\ ~options.DebugSerialization) =>
        \A k \in DOMAIN OptStages :
            LET s == OptStages[k] IN
            /\ IterationsBegun(s) <= Budget(s)
            /\ \A i \in StageEntries(s) : executed[i].iter \in 1..Budget(s)
            /\ pc = 0 =>
                  /\ IterationsBegun(s) = Budget(s)
                  /\ IterationsEnded(s) = Budget(s)
                  /\ \A i \in StageEntries(s) :
                        executed[i].last =>
                            Cardinality(StageEntries(s)) = Budget(s) * executed[i].pos

C4_Witness ==
    /\ Returned("opt")
    /\ options = [DebugSerialization |-> FALSE, EnableFuncSigOpts |-> FALSE,
                  PrintInstCounts |-> FALSE]
    /\ ~SILViewCFG
    /\ Cardinality(StageEntries("HighLevel")) = 52
    /\ Cardinality(StageEntries("Lower")) = 7
    /\ Len(executed) = 164

\* The place of a log entry in the order of the Optimization Driver's stages;
\* 8 is the instrumentation after the last stage.
Rank(e) ==
    IF e.pm = "PrinterPM" THEN 8
    ELSE CASE e.stage = "PreSpecialize" -> 1
           [] e.stage = "HighLevel"     -> 2
           [] e.stage = "EarlyLoopOpt"  -> 3
           [] e.stage = "MidLevel"      -> 4
           [] e.stage = "Lower"         -> 5
           [] e.stage = "LowLevel"      -> 6
           [] e.stage = "LateLoopOpt"   -> 7
           [] OTHER                     -> 8

\* Entry b may follow entry a in the log of an Optimization Driver call.
InOrder(a, b) ==
    \/ /\ Rank(b) = Rank(a)                \* the iteration goes on
       /\ b.pm = a.pm
       /\ b.iter = a.iter
       /\ b.pos = a.pos + 1
    \/ /\ Rank(b) = Rank(a)                \* the next iteration of the stage
       /\ Rank(a) < 8
       /\ a.last
       /\ b.iter = a.iter + 1
       /\ b.iter <= Budget(b.stage)
       /\ b.pos = 1
    \/ /\ Rank(b) = Rank(a) + 1            \* the next stage, or instrumentation
       /\ a.last
       /\ a.iter = Budget(a.stage)
       /\ b.iter = 1
       /\ b.pos = 1
    \/ /\ Rank(a) = 8                      \* the CFG printer after the counts
       /\ a.pm = "PrinterPM"
       /\ a.last
       /\ b.pm = "PM"
       /\ b.stage = ""
       /\ b.pos = 1

\* C5: in an Optimization Driver call without DebugSerialization the stages
\* are entered in the order PreSpecialize, HighLevel, EarlyLoopOpt, MidLevel,
\* Lower, LowLevel, LateLoopOpt, each once; a pass of a stage executes only
\* after all iterations of the stages before it have run to their last pass;
\* instrumentation passes execute only after the LateLoopOpt iteration.
C5_StageOrder ==
    (call.driver = "opt" /\ ~options.DebugSerialization) =>
        /\ executed # <<>> =>
              Rank(executed[1]) = 1 /\ executed[1].pos = 1 /\ executed[1].iter = 1
        /\ \A i \in 1..(Len(executed) - 1) : InOrder(executed[i], executed[i + 1])
        /\ pc = 0 =>
              /\ \A r \in 1..7 : \E i \in DOMAIN executed : Rank(executed[i]) = r
              /\ executed[Len(executed)].last

C5_Witness ==
    /\ Returned("opt")
    /\ ~options.DebugSerialization
    /\ options.PrintInstCounts
    /\ SILViewCFG
    /\ Rank(executed[Len(executed)]) = 8
    /\ Len(executed) >= 166

\* The passes of the full diagnostic pipeline.
DiagnosticPasses ==
    <<"MandatoryInlining", "CapturePromotion", "AllocBoxToStack",
      "InOutDeshadowing", "NoReturnFolding", "DefiniteInitialization",
      "PredictableMemoryOptimizations", "DiagnosticConstantPropagation",
      "DiagnoseUnreachable", "EmitDFDiagnostics", "SplitNonCondBrCriticalEdges">>

\* A Diagnostic Driver call on a Raw module without DebugSerialization, during
\* which a pass set the error flag, has returned.
ErrorDuringDiagnostics ==
    /\ Returned("diag")
    /\ call.entryStage = "Raw"
    /\ ~options.DebugSerialization
    /\ ~call.entryHadError
    /\ hadError

\* C6: when a pass sets the error flag during a Diagnostic Driver call on a
\* Raw module without DebugSerialization, the driver has nevertheless
\* executed every pass of the diagnostic pipeline when it returns, the stage
\* is Canonical and the value returned is true.
C6_ErrorDoesNotAbort ==
    ErrorDuringDiagnostics =>
        /\ Passes(executed) = DiagnosticPasses
        /\ stage = "Canonical"
        /\ ret

C6_Witness == ErrorDuringDiagnostics /\ ret /\ Len(executed) = 11

\* C7: in no step of any sequence of driver calls, with any options, does
\* stage go from Canonical to Raw or hadError from true to false.
C7_Monotone ==
    [][/\ stage = "Canonical" => stage' = "Canonical"
       /\ hadError => hadError']_vars

C7_Witness ==
    /\ Returned("opt")
    /\ prev.driver = "diag"
    /\ prev.entryStage = "Raw"
    /\ stage = "Canonical"
    /\ ~call.entryHadError
    /\ hadError

\* The run of the full diagnostic pipeline at line 92 has executed all its
\* passes.
FullDiagnosticsDone ==
    /\ pc = 92
    /\ IterationDone
    /\ call.driver = "diag"
    /\ ~options.DebugSerialization
    /\ Passes(executed) = DiagnosticPasses

\* C8: every step that writes stage takes it from Raw to Canonical, is the
\* first write in the module's lifetime, and is taken by a Diagnostic Driver
\* call without DebugSerialization whose full pipeline (mandatory inlining and
\* the ten diagnostic passes) has completed its run; hence no Optimization
\* Driver call and no debug-serialization call writes it.
C8_StageWrittenOnce ==
    [][(stage' # stage \/ stageWrites' # stageWrites) =>
          /\ stage = "Raw"
          /\ stage' = "Canonical"
          /\ stageWrites = 0
          /\ stageWrites' = 1
          /\ FullDiagnosticsDone]_vars

C8_Witness ==
    /\ stageWrites = 1
    /\ stage = "Canonical"
    /\ call.driver = "diag"
    /\ call.entryStage = "Canonical"
    /\ prev.driver = "opt"

\* C9: a Diagnostic Driver call on a Canonical module returns at once,
\* whatever the options: it returns false, executes no pass, constructs no
\* pass manager and leaves stage and hadError as they were.
C9_CanonicalIsNoOp ==
    (call.driver = "diag" /\ call.entryStage = "Canonical") =>
        /\ pc = 0
        /\ ~ret
        /\ executed = <<>>
        /\ pmCreated = 0
        /\ PM = NoPM
        /\ stage = "Canonical"
        /\ hadError = call.entryHadError

C9_Witness ==
    /\ call.driver = "diag"
    /\ call.entryStage = "Canonical"
    /\ options.DebugSerialization
    /\ hadError
    /\ prev.driver = "opt"

\* The log entries of the passes PrinterPM executed.
PrinterEntries == {i \in DOMAIN executed : executed[i].pm = "PrinterPM"}

\* The pipeline of the LateLoopOpt stage.
LateLoopOptPasses ==
    <<"LICM", "DCE", "CSE", "SILCombine", "SimplifyCFG", "DeadFunctionElimination">>

\* The driver's pass manager is as the LateLoopOpt iteration left it.
MainPipelineUntouched ==
    /\ PM.name = "LateLoopOpt"
    /\ PM.pipeline = LateLoopOptPasses
    /\ PM.iterations = 1
    /\ Len(PM.analyses) = 9

\* The number of passes the seven stages execute in one call.
MainPassCount == 164 + (IF options.EnableFuncSigOpts THEN 1 ELSE 0)

\* C10: with PrintInstCounts on and the CFG viewer off, an Optimization
\* Driver call runs the instruction-count pass exactly once, in a second
\* pass manager holding that pass alone, after every pass of the seven stages
\* has executed; while it runs and after it, the driver's own pass manager
\* still holds exactly the LateLoopOpt pipeline, and no pass executes after
\* the instruction count.
C10_InstCountIsolated ==
    (/\ call.driver = "opt"
     /\ ~options.DebugSerialization
     /\ options.PrintInstCounts
     /\ ~SILViewCFG) =>
        /\ \A i \in PrinterEntries :
              /\ i = Len(executed)
              /\ i = MainPassCount + 1
              /\ executed[i].pass = "SILInstCount"
              /\ executed[i].pos = 1
              /\ executed[i].last
              /\ executed[i - 1].pm = "PM"
              /\ executed[i - 1].stage = "LateLoopOpt"
              /\ executed[i - 1].last
        /\ \A i \in DOMAIN executed :
              executed[i].pass = "SILInstCount" => i \in PrinterEntries
        /\ pc = 278 =>
              /\ running = "PrinterPM"
              /\ PrinterPM.pipeline = <<"SILInstCount">>
              /\ PrinterPM.iterations = 1
              /\ MainPipelineUntouched
        /\ pc = 282 => MainPipelineUntouched /\ PrinterPM = NoPM
        /\ pc \in {0, 282} => Cardinality(PrinterEntries) = 1 /\ pmCreated = 2

C10_Witness ==
    /\ Returned("opt")
    /\ ~options.DebugSerialization
    /\ options.PrintInstCounts
    /\ ~SILViewCFG
    /\ Len(executed) = MainPassCount + 1
    /\ executed[Len(executed)].pm = "PrinterPM"

\* The pipeline AddSSAPasses builds for a level, and the one
\* AddHighLevelLoopOptPasses builds.
SSAPasses(OpLevel) == AddSSAPasses(SILPassManager(""), OpLevel).pipeline
HighLevelLoopOptPasses == AddHighLevelLoopOptPasses(SILPassManager("")).pipeline

\* The passes of the Lower stage.
LowerPasses ==
    <<"DeadFunctionElimination", "DeadObjectElimination", "GlobalOpt",
      "CapturePropagation", "ClosureSpecializer", "Devirtualization",
      "InlineCaches">>
    \o (IF options.EnableFuncSigOpts THEN <<"FunctionSignatureOpts">> ELSE <<>>)

\* The passes of one Optimization Driver call, as the options alone give them.
OptimizationPasses ==
    IF options.DebugSerialization
    THEN <<"SILLinker">>
    ELSE <<"SILLinker", "GenericSpecializer">>
         \o SSAPasses("HighLevel") \o SSAPasses("HighLevel")
         \o HighLevelLoopOptPasses
         \o SSAPasses("MidLevel") \o SSAPasses("MidLevel")
         \o LowerPasses
         \o SSAPasses("LowLevel")
         \o LateLoopOptPasses
         \o (IF options.PrintInstCounts THEN <<"SILInstCount">> ELSE <<>>)
         \o (IF SILViewCFG THEN <<"SILCFGPrinter">> ELSE <<>>)

\* The log is no longer than `passes`, its newest entry is the pass that
\* `passes` has at that place, and it is as long as `passes` once the driver
\* has returned.  (Every entry was the newest one in an earlier state.)
Follows(passes) ==
    /\ Len(executed) <= Len(passes)
    /\ executed # <<>> => executed[Len(executed)].pass = passes[Len(executed)]
    /\ pc = 0 => Len(executed) = Len(passes)

\* C11: the sequence of passes an Optimization Driver call executes is the
\* one its options give, whether hadError is false throughout, true at entry
\* or becomes true after any pass of the call: an error never ends the call
\* early and never changes which pass runs next.
C11_ErrorsDoNotHaltOptimization ==
    call.driver = "opt" => Follows(OptimizationPasses)

C11_Witness ==
    /\ Returned("opt")
    /\ ~options.DebugSerialization
    /\ ~call.entryHadError
    /\ hadError
    /\ Passes(executed) = OptimizationPasses

\* C12: a Diagnostic Driver call on a Raw module without DebugSerialization
\* executes, in this order and each once: mandatory inlining, capture
\* promotion, box-to-stack promotion, in-out deshadowing, no-return folding,
\* definite initialization, predictable-memory optimization, diagnostic
\* constant propagation, unreachable-code diagnosis, data-flow diagnostics,
\* critical-edge splitting; and the step that makes the stage Canonical is
\* taken when critical-edge splitting is the newest pass executed.
C12_DiagnosticOrder ==
    /\ [](  (call.driver = "diag" /\ call.entryStage = "Raw"
                /\ ~options.DebugSerialization)
            => /\ Follows(DiagnosticPasses)
               /\ \A i \in DOMAIN executed :
                     executed[i].pos = i /\ executed[i].iter = 1 )
    /\ [][ stage' # stage =>
              /\ Len(executed) = 11
              /\ executed[11].pass = "SplitNonCondBrCriticalEdges"
              /\ executed' = executed ]_vars

C12_Witness ==
    /\ Returned("diag")
    /\ call.entryStage = "Raw"
    /\ ~options.DebugSerialization
    /\ stage = "Canonical"
    /\ Len(executed) = 11
    /\ executed[1].pass = "MandatoryInlining"
    /\ executed[10].pass = "EmitDFDiagnostics"
    /\ executed[11].pass = "SplitNonCondBrCriticalEdges"

\* The nine analysis kinds.
AnalysisKinds ==
    {"CallGraph", "Alias", "Dominance", "LoopInfo", "InductionVariable",
     "PostOrder", "ClassHierarchy", "RCIdentity", "Destructor"}

\* No kind is registered twice on pm.
NoKindTwice(pm) ==
    \A i, j \in DOMAIN pm.analyses : i # j => pm.analyses[i] # pm.analyses[j]

\* Each of the nine kinds is registered on pm, exactly once.
AllKindsOnce(pm) ==
    /\ {pm.analyses[i] : i \in DOMAIN pm.analyses} = AnalysisKinds
    /\ NoKindTwice(pm)

\* C13, as stated: every pass manager that runs an iteration has each of the
\* nine analysis kinds registered exactly once when the iteration starts and
\* while its passes execute.
C13_EveryManagerRegisters == running # "none" => AllKindsOnce(Running)

\* C13, amended: the driver's own pass manager PM has each of the nine kinds
\* registered exactly once whenever it runs an iteration, from before its
\* first pass; no kind is registered twice on any pass manager; PrinterPM runs
\* the instruction-count pass with no analysis registered.
C13_DriverManagerRegisters ==
    /\ running = "PM" => AllKindsOnce(PM)
    /\ PM.live => AllKindsOnce(PM)
    /\ NoKindTwice(PM)
    /\ NoKindTwice(PrinterPM)
    /\ running = "PrinterPM" => PrinterPM.analyses = <<>>

C13_Witness ==
    /\ running = "PrinterPM"
    /\ IterationDone
    /\ executed[Len(executed)].pass = "SILInstCount"
    /\ PrinterPM.analyses = <<>>
    /\ AllKindsOnce(PM)

\* The pipeline the Optimization Driver installs under a stage name; the
\* unnamed stage is the debug-serialization run or the CFG viewer run.
StagePasses(name) ==
    CASE name = "PreSpecialize" -> <<"SILLinker", "GenericSpecializer">>
      [] name = "HighLevel"     -> SSAPasses("HighLevel")
      [] name = "EarlyLoopOpt"  -> HighLevelLoopOptPasses
      [] name = "MidLevel"      -> SSAPasses("MidLevel")
      [] name = "Lower"         -> LowerPasses
      [] name = "LowLevel"      -> SSAPasses("LowLevel")
      [] name = "LateLoopOpt"   -> LateLoopOptPasses
      [] OTHER -> IF options.DebugSerialization
                  THEN <<"SILLinker">>
                  ELSE <<"SILCFGPrinter">>

\* C14: a step of the Optimization Driver that resets the pass manager's
\* pipeline leaves the registry as it was: the registered kinds are the same
\* and every cached analysis that was valid is still valid (and none has
\* become valid, nothing is recomputed).  The pipeline the pass manager holds
\* is always exactly the one added since the last reset, and the nine kinds
\* stay registered once, from construction to the end of the call.
C14_ResetKeepsRegistry ==
    /\ [](PM.live => PM.pipeline = StagePasses(PM.name) /\ AllKindsOnce(PM))
    /\ [][ (PM.live /\ PM'.live) =>
              /\ PM'.analyses = PM.analyses
              /\ pc' # pc => PM'.valid = PM.valid ]_vars

C14_Witness ==
    /\ pc = 214
    /\ idx = 1
    /\ PM.name = "HighLevel"
    /\ PM.iterations = 1
    /\ PM.pipeline = SSAPasses("HighLevel")
    /\ PM.valid = {"Dominance", "CallGraph"}

OptLevels == {"HighLevel", "MidLevel", "LowLevel"}

\* C15: the SSA pipeline the driver has installed for a level when an
\* iteration of it starts (AddSSAPasses applied to the reset pass manager) has
\* 26 passes; it
\* has the same pass as the pipeline of every other level at every position
\* but 23 and 25; position 23 is the early inliner at High, the performance
\* inliner at Mid and the late inliner at Low; position 25, the second code
\* motion, hoists releases exactly at Low; position 18, the first code
\* motion, hoists releases at no level.
C15_SSALevelsDifferInTwoPlaces ==
    (PM.live /\ PM.name \in OptLevels /\ idx = 1) =>
        LET p == PM.pipeline IN
        /\ Len(p) = 26
        /\ p[23] = (CASE PM.name = "HighLevel" -> "EarlyInliner"
                      [] PM.name = "MidLevel"  -> "PerfInliner"
                      [] PM.name = "LowLevel"  -> "LateInliner")
        /\ p[25] = (IF PM.name = "LowLevel" THEN "CodeMotion(HoistReleases)"
                                            ELSE "CodeMotion")
        /\ p[18] = "CodeMotion"
        /\ \A L \in OptLevels :
              /\ Len(SSAPasses(L)) = 26
              /\ SSAPasses(L)[18] = "CodeMotion"
              /\ \A i \in 1..26 : i \notin {23, 25} => p[i] = SSAPasses(L)[i]

C15_Witness ==
    /\ pc = 267
    /\ PM.name = "LowLevel"
    /\ Len(PM.pipeline) = 26
    /\ PM.pipeline[23] = "LateInliner"
    /\ PM.pipeline[25] = "CodeMotion(HoistReleases)"
    /\ PM.pipeline[18] = "CodeMotion"

\* The number of passes executed before the CFG viewer's turn.
PassCountBeforeViewCFG ==
    MainPassCount + (IF options.PrintInstCounts THEN 1 ELSE 0)

\* The newest pass executed is the CFG printer.
CFGPrinterJustRan ==
    executed # <<>> /\ executed[Len(executed)].pass = "SILCFGPrinter"

\* C16: in an Optimization Driver call without DebugSerialization, when
\* SILViewCFG is set the last iteration runs a pipeline holding the CFG
\* printer alone, once, on the reset pass manager; the CFG printer is the
\* pass executed right after the LateLoopOpt iteration, or right after the
\* instruction count when that is enabled, and it is the last pass of the
\* call.  When SILViewCFG is not set the CFG printer never executes.
C16_ViewCFGRunsLast ==
    (call.driver = "opt" /\ ~options.DebugSerialization) =>
        LET n == Len(executed) IN
        /\ pc = 285 =>
              /\ SILViewCFG
              /\ running = "PM"
              /\ PM.pipeline = <<"SILCFGPrinter">>
              /\ PM.iterations = 1
        /\ CFGPrinterJustRan =>
              /\ SILViewCFG
              /\ n = PassCountBeforeViewCFG + 1
              /\ executed[n].pm = "PM"
              /\ executed[n].pos = 1
              /\ executed[n].last
              /\ executed[n].iter = 1
              /\ IF options.PrintInstCounts
                 THEN /\ executed[n - 1].pm = "PrinterPM"
                      /\ executed[n - 1].pass = "SILInstCount"
                 ELSE /\ executed[n - 1].stage = "LateLoopOpt"
                      /\ executed[n - 1].last
        /\ (pc = 0 /\ SILViewCFG) =>
              CFGPrinterJustRan /\ n = PassCountBeforeViewCFG + 1
        /\ ~SILViewCFG => ~CFGPrinterJustRan

C16_Witness ==
    /\ Returned("opt")
    /\ ~options.DebugSerialization
    /\ options.PrintInstCounts
    /\ SILViewCFG
    /\ CFGPrinterJustRan
    /\ executed[Len(executed) - 1].pass = "SILInstCount"
    /\ executed[Len(executed) - 2].stage = "LateLoopOpt"

\* The newest pass executed is the function signature optimization.
FuncSigOptsJustRan ==
    executed # <<>> /\ executed[Len(executed)].pass = "FunctionSignatureOpts"

\* C17: in an Optimization Driver call without DebugSerialization, the
\* function signature optimization executes exactly once when
\* EnableFuncSigOpts is set (as the 133rd pass of the call) and never when it
\* is not; when it executes it is the last pass of the Lower pipeline, and a
\* reference-count optimization (GlobalARCOpts) executes after it before the
\* call returns.
C17_FuncSigOptsOnceAndLate ==
    (call.driver = "opt" /\ ~options.DebugSerialization) =>
        LET n == Len(executed) IN
        /\ FuncSigOptsJustRan =>
              /\ options.EnableFuncSigOpts
              /\ n = 133
              /\ executed[n].pm = "PM"
              /\ executed[n].stage = "Lower"
              /\ executed[n].iter = 1
              /\ executed[n].last
        /\ pc = 260 =>
              /\ Len(PM.pipeline) = (IF options.EnableFuncSigOpts THEN 8 ELSE 7)
              /\ options.EnableFuncSigOpts =>
                    PM.pipeline[Len(PM.pipeline)] = "FunctionSignatureOpts"
        /\ (pc = 0 /\ options.EnableFuncSigOpts) =>
              /\ n > 133
              /\ executed[133].pass = "FunctionSignatureOpts"
              /\ \E i \in 134..n : executed[i].pass = "GlobalARCOpts"
        /\ ~options.EnableFuncSigOpts => ~FuncSigOptsJustRan

C17_Witness ==
    /\ Returned("opt")
    /\ ~options.DebugSerialization
    /\ options.EnableFuncSigOpts
    /\ executed[133].pass = "FunctionSignatureOpts"
    /\ executed[132].pass = "InlineCaches"
    /\ executed[159].pass = "GlobalARCOpts"

Inliners == {"EarlyInliner", "PerfInliner", "LateInliner"}

\* GlobalOpt is among the first n entries of the log.
GlobalOptWithin(n) == \E i \in 1..n : executed[i].pass = "GlobalOpt"

\* C18: in an Optimization Driver call, an inliner that executes before
\* GlobalOpt has executed is the early or the performance inliner, and the
\* late inliner executes only once GlobalOpt is in the log before it.
C18_LateInlinerAfterGlobalOpt ==
    (call.driver = "opt" /\ executed # <<>>) =>
        LET n == Len(executed) IN
        /\ (executed[n].pass \in Inliners /\ ~GlobalOptWithin(n - 1)) =>
              executed[n].pass \in {"EarlyInliner", "PerfInliner"}
        /\ executed[n].pass = "LateInliner" =>
              /\ GlobalOptWithin(n - 1)
              /\ executed[n].stage = "LowLevel"

C18_Witness ==
    /\ call.driver = "opt"
    /\ ~options.EnableFuncSigOpts
    /\ Len(executed) = 155
    /\ executed[155].pass = "LateInliner"
    /\ executed[128].pass = "GlobalOpt"
    /\ executed[25].pass = "EarlyInliner"
    /\ executed[96].pass = "PerfInliner"

\* Entries k .. k+25 of the log are one whole iteration of an SSA sequence,
\* inliner included.
FullSSAIterationAt(k) ==
    /\ k + 25 <= Len(executed)
    /\ \E OpLevel \in OptLevels :
          \A j \in 1..26 :
              /\ executed[k + j - 1].pass = SSAPasses(OpLevel)[j]
              /\ executed[k + j - 1].pos = j
              /\ executed[k + j - 1].stage = executed[k].stage
              /\ executed[k + j - 1].iter = executed[k].iter
    /\ executed[k + 22].pass \in Inliners

\* C19: in an Optimization Driver call without DebugSerialization, capture
\* propagation executes with generic specialization and an inliner already in
\* the log, the pass executed right after it is closure specialization of
\* the same Lower iteration (and closure specialization never executes
\* otherwise), and when the call returns a whole SSA iteration with its
\* inliner lies after it in the log.
C19_CapturePropagationPlacement ==
    (call.driver = "opt" /\ ~options.DebugSerialization /\ executed # <<>>) =>
        LET n == Len(executed) IN
        /\ executed[n].pass = "CapturePropagation" =>
              /\ executed[n].stage = "Lower"
              /\ \E i \in 1..(n - 1) : executed[i].pass = "GenericSpecializer"
              /\ \E i \in 1..(n - 1) : executed[i].pass \in Inliners
        /\ (n > 1 /\ executed[n - 1].pass = "CapturePropagation") =>
              /\ executed[n].pass = "ClosureSpecializer"
              /\ executed[n].stage = executed[n - 1].stage
              /\ executed[n].iter = executed[n - 1].iter
              /\ executed[n].pos = executed[n - 1].pos + 1
        /\ executed[n].pass = "ClosureSpecializer" =>
              /\ n > 1
              /\ executed[n - 1].pass = "CapturePropagation"
        /\ pc = 0 =>
              \E c \in 1..n :
                  /\ executed[c].pass = "CapturePropagation"
                  /\ \E k \in (c + 1)..n : FullSSAIterationAt(k)

C19_Witness ==
    /\ Returned("opt")
    /\ ~options.DebugSerialization
    /\ executed[129].pass = "CapturePropagation"
    /\ executed[130].pass = "ClosureSpecializer"
    /\ executed[2].pass = "GenericSpecializer"
    /\ executed[25].pass = "EarlyInliner"
    /\ options.EnableFuncSigOpts
    /\ FullSSAIterationAt(134)

\* The number of passes a Diagnostic Driver call executes, by the options.
DiagnosticPassCount == IF options.DebugSerialization THEN 1 ELSE 11

\* The number of passes an Optimization Driver call executes, by the options
\* (the CFG viewer flag counted among them).
OptimizationPassCount ==
    IF options.DebugSerialization
    THEN 1
    ELSE MainPassCount + (IF options.PrintInstCounts THEN 1 ELSE 0)
                       + (IF SILViewCFG THEN 1 ELSE 0)

\* C20, as stated: when a driver call has returned, the number of passes it
\* executed is the number its options give, whatever else held at entry.
C20_CountByOptionsAlone ==
    /\ Returned("diag") => Len(executed) = DiagnosticPassCount
    /\ Returned("opt") => Len(executed) = OptimizationPassCount

\* The number of passes of the call in progress or just returned: for the
\* Diagnostic Driver it is 0 on a module entered Canonical.
PassCount ==
    CASE call.driver = "diag" ->
            IF call.entryStage = "Canonical"
            THEN 0
            ELSE DiagnosticPassCount
      [] call.driver = "opt" -> OptimizationPassCount
      [] OTHER -> 0

\* Inside a call, a step executes one more pass at the line the driver
\* waits at, or takes the driver to a later line, or returns.
Advances ==
    pc # 0 =>
        \/ pc' = pc /\ idx' = idx + 1 /\ Len(executed') = Len(executed) + 1
        \/ pc' > pc /\ executed' = executed
        \/ pc' = 0 /\ executed' = executed

\* C20, amended: every driver call returns; the number of passes it executes
\* is fixed by the options and, for the Diagnostic Driver, by the stage at
\* entry (none on a Canonical module), whatever the passes report as changed; the driver never goes back to a
\* line it has left, so no stage is repeated on a change.
C20_TerminatesWithFixedCount ==
    /\ [](/\ Len(executed) <= PassCount
          /\ (pc = 0 /\ call # NoCall) => Len(executed) = PassCount)
    /\ [][Advances]_vars
    /\ (pc # 0) ~> (pc = 0)

C20_Witness ==
    /\ call.driver = "opt"
    /\ ~options.DebugSerialization
    /\ pc = 272
    /\ IterationDone
    /\ changed
    /\ Len(executed) = MainPassCount
    /\ ~options.PrintInstCounts
    /\ ~SILViewCFG
    /\ PassCount = MainPassCount

====
